---------------------------- MODULE Spec2Model ----------------------------
(***************************************************************************)
(* A model of RDPMux's per-VM listener (src/src/rdp/RDPListener.cpp) and   *)
(* of the shim library's message codec (src/lib/src/msgpack.c).            *)
(*                                                                         *)
(* One RDPListener object is modelled together with the three kinds of     *)
(* threads that call into it:                                              *)
(*   - the thread that runs RunServer (pc follows its position),           *)
(*   - the RDPServerWorker main loop, which hands every message of the     *)
(*     shim to processIncomingMessage,                                     *)
(*   - the peer threads, which call registerPeer and unregisterPeer.       *)
(* What the listener does to the outside is recorded in logs: the          *)
(* messages passed to parent->sendMessage (outbox), the calls of           *)
(* parent->UnregisterVM (unregisterVM), the display updates pushed to      *)
(* peers (peerLog), and the shm_open / mmap calls (shmOpens, mmapsOk).     *)
(***************************************************************************)
EXTENDS Integers, Sequences, FiniteSets, TLC

VARIABLES
    uuid,           \* RDPListener::uuid, set by the constructor
    port,           \* RDPListener::port, set by the constructor
    vm_id,          \* RDPListener::vm_id, set by the constructor
    stop,           \* RDPListener::stop
    shm_buffer,     \* RDPListener::shm_buffer, NULL or the mapped address
    width,          \* RDPListener::width
    height,         \* RDPListener::height
    format,         \* RDPListener::format
    targetFPS,      \* RDPListener::targetFPS
    peerlist,       \* RDPListener::peerlist
    sizeUnderflow,  \* peerlist's size field after an erase at end()
    pc,             \* position of the thread running RunServer
    exitPath,       \* which branch of RunServer reached the cleanup label
    server,         \* state of the shadow server object
    dbus_registered,\* whether the DBus object of the listener is registered
    alive,          \* FALSE once ~RDPListener has run
    crashed,        \* TRUE once undefined behaviour has killed the process
    outbox,         \* the (vec, uuid) pairs handed to parent->sendMessage
    unregisterVM,   \* the (uuid, port) pairs handed to parent->UnregisterVM
    peerLog,        \* the display updates handed to peers
    shmOpens,       \* number of shm_open calls made
    mmapsOk,        \* number of mmap calls that returned a mapping
    registered,     \* history: the peers that called registerPeer and have
                    \* not called unregisterPeer since, in call order
    nIn,            \* history: number of processIncomingMessage calls
    last,           \* history: the last incoming message and what the
                    \* system calls made for it returned
    munmaps,        \* number of munmap calls made
    held,           \* the worker's main loop holds the listener it looked
                    \* up for a message that it has not dispatched yet
    useAfterFree,   \* history: processIncomingMessage was called on the
                    \* listener after ~RDPListener
    outQueue,       \* the worker's queue of outgoing (vec, uuid) items
    wire,           \* the (vec, uuid) items written to the shim, in order
    emitted,        \* history: the (vec, uuid) items the listener handed
                    \* to the worker on either path, in order
    nOut,           \* history: number of processOutgoingMessage calls
    nnstr,          \* the nnStr (msg) that mux_write_outgoing_msg wrote
    enc,            \* history: the update last encoded, the allocation
                    \* size it met and the value returned
    rx,             \* history: the frame last given to
                    \* mux_process_incoming_msg and what the call did
    framerate,      \* the shim's display->framerate
    rdpFormat,      \* history: the format GetRDPFormat was last called
                    \* with and the tuple it returned
    authenticating, \* RDPListener::authenticating
    credential_path,\* RDPListener::credential_path
    dbusCall,       \* the on_method_call the DBus thread is in
    peerRead        \* the GetCredentialPath or Authenticating call a peer
                    \* thread is in, and what the last one returned

vars == <<uuid, port, vm_id, stop, shm_buffer, width, height, format,
          targetFPS, peerlist, sizeUnderflow, pc, exitPath, server,
          dbus_registered, alive, crashed, outbox, unregisterVM, peerLog,
          shmOpens, mmapsOk, registered, nIn, last, munmaps, held,
          useAfterFree, outQueue, wire, emitted, nOut, nnstr, enc, rx,
          framerate, rdpFormat, authenticating, credential_path, dbusCall,
          peerRead>>

---------------------------------------------------------------------------
(* Bounds of the model.                                                    *)

\* Incoming messages handed to one listener in a run.
MaxIn == 3
\* Longest incoming vector (a DisplayUpdate has 5 elements).
MaxLen == 5
\* Largest message tag drawn (SHUTDOWN is 5, so one unknown tag is drawn).
MaxTag == 6
\* Number of different payloads drawn per tag and length.
MaxSeed == 2
\* Number of different addresses mmap may return.
MaxAddr == 2
\* Input events handed to one listener by its peers in a run.
MaxOut == 2

---------------------------------------------------------------------------
(* Program constants.                                                      *)

\* Message tags (the protocol's numbering).
DISPLAY_UPDATE == 0
DISPLAY_SWITCH == 1
DISPLAY_UPDATE_COMPLETE == 2
MOUSE == 3
KEYBOARD == 4
SHUTDOWN == 5

\* shm_buffer(nullptr) in the constructor's initialiser list.
NULL == 0

\* 16-bit elements of the vector handed to sendMessage.
Uint16 == 65536

\* targetFPS(30) in the constructor's initialiser list.
TargetFPSInitSixty == 30 + 30
TargetFPSInit == 30

\* The peers that may connect, and the capture rate each one reports.
Peers == {"p1", "p2"}
GetCaptureFps(peer) == IF peer = "p1" THEN 1 ELSE 100

\* Constructor arguments.
Uuids == {"vm-a", "vm-b"}
Ports == {3389}
VmIds == {42}
Auths == {FALSE}
\* width, height and format are not initialised by the constructor: they
\* hold whatever the allocation held.
Uninit == {0, 99}

---------------------------------------------------------------------------
(* Incoming messages: a tag followed by n-1 payload words.  The payload of *)
(* seed v is v*10+2, v*10+3, ... so that every position holds a different  *)
(* value.                                                                  *)

Msg(t, n, v) == [i \in 1..n |-> IF i = 1 THEN t ELSE v * 10 + i]
\* The lengths drawn: a bare tag, and the two longest vectors (with MaxLen
\* 5: a vector that holds a DisplaySwitch but is too short for a
\* DisplayUpdate, and one that holds either).
Lens == {1} \cup ((MaxLen - 1)..MaxLen)
Msgs == {Msg(t, n, v) : t \in 0..MaxTag, n \in Lens, v \in 1..MaxSeed}

NoMsg == << >>
\* no system call was made for the message
NoCall == << >>
MAP_FAILED == -1
Addrs == 1..MaxAddr

\* The record kept of the last incoming message: the vector, what shm_open
\* and mmap returned for it (<<fd, address>>, or NoCall), and whether
\* std::out_of_range left the handler.
Last(msg, sys, threw) == [msg |-> msg, sys |-> sys, threw |-> threw]


---------------------------------------------------------------------------
(* The shim library (src/lib/src/msgpack.c): its values before any call.   *)

\* The blank nnStr a caller hands to mux_write_outgoing_msg: buf is NULL.
\* buf is "NULL", "live" or "freed"; cap is the size of the allocation,
\* size and pos are the fields of the struct, data holds the bytes of the
\* buffer below pos, and overrun tells whether a memcpy went past cap.
BlankMsg ==
    [buf |-> "NULL", cap |-> 0, size |-> 0, pos |-> 0, data |-> << >>,
     overrun |-> FALSE]

\* The MuxUpdate pointer NULL, which stands for a shutdown.
NullUpdate == [null |-> TRUE, type |-> 0, args |-> << >>]

\* nothing was encoded yet
NoEnc == [called |-> FALSE, update |-> NullUpdate, usable |-> 0, ret |-> 0]

\* no callback was fired
NoCallback == [fn |-> "none", args |-> << >>]

\* nothing was decoded yet
NoRx == [called |-> FALSE, frame |-> << >>, fired |-> NoCallback, freed |-> FALSE]

\* display->framerate before any message of the multiplexer
FramerateInit == 30

---------------------------------------------------------------------------
(* The getters and the DBus interface of the listener: values before any   *)
(* call.                                                                   *)

\* GetRDPFormat was not called yet
NoFormat == [called |-> FALSE, format |-> 0, result |-> << >>]

\* the DBus thread is outside on_method_call
NoMethod == [method |-> "none", path |-> "", auth |-> FALSE, reply |-> "none"]

\* no peer thread is in a getter, and none has returned
NoRead == [fn |-> "none", phase |-> "idle", path |-> "", auth |-> FALSE,
           raced |-> FALSE]

---------------------------------------------------------------------------
(* RDPListener::RDPListener: the state after construction.                 *)

Init ==
    /\ uuid \in Uuids
    /\ port \in Ports
    /\ vm_id \in VmIds
    /\ stop = FALSE
    /\ shm_buffer = NULL
    /\ \E garbage \in Uninit :
          /\ width = garbage
          /\ height = garbage
          /\ format = garbage
    /\ targetFPS = TargetFPSInit
    /\ peerlist = << >>
    /\ sizeUnderflow = FALSE
    /\ pc = "Created"
    /\ exitPath = "none"
    /\ server = "new"
    /\ dbus_registered = FALSE
    /\ alive = TRUE
    /\ crashed = FALSE
    /\ outbox = << >>
    /\ unregisterVM = << >>
    /\ peerLog = << >>
    /\ shmOpens = 0
    /\ mmapsOk = 0
    /\ registered = << >>
    /\ nIn = 0
    /\ last = Last(NoMsg, NoCall, FALSE)
    /\ munmaps = 0
    /\ held = FALSE
    /\ useAfterFree = FALSE
    /\ outQueue = << >>
    /\ wire = << >>
    /\ emitted = << >>
    /\ nOut = 0
    /\ nnstr = BlankMsg
    /\ enc = NoEnc
    /\ rx = NoRx
    /\ framerate = FramerateInit
    /\ rdpFormat = NoFormat
    /\ authenticating \in Auths
    /\ credential_path = ""
    /\ dbusCall = NoMethod
    /\ peerRead = NoRead

\* The variables grouped by who changes them.
runVars == <<pc, exitPath, server, dbus_registered, unregisterVM>>
peerVars == <<peerlist, sizeUnderflow, registered, crashed>>
displayVars == <<shm_buffer, width, height, format, shmOpens, mmapsOk>>
ctorVars == <<uuid, port, vm_id>>
\* what reaches the shim
sendVars == <<wire, emitted>>
\* the state of the shim library, which runs in the hypervisor's process
shimVars == <<nnstr, enc, rx, framerate>>
\* the fields behind the DBus interface and the getters, and their callers
apiVars == <<rdpFormat, authenticating, credential_path, dbusCall, peerRead>>
\* what no member function of the listener modelled above the getters writes
farVars == <<munmaps, held, useAfterFree, outQueue, nOut, shimVars, apiVars>>
\* the state of the listener and of the worker
muxVars == <<uuid, port, vm_id, stop, shm_buffer, width, height, format,
             targetFPS, peerlist, sizeUnderflow, pc, exitPath, server,
             dbus_registered, alive, crashed, outbox, unregisterVM, peerLog,
             shmOpens, mmapsOk, registered, nIn, last, munmaps, held,
             useAfterFree, outQueue, wire, emitted, nOut, rdpFormat,
             authenticating, credential_path, dbusCall, peerRead>>

\* A member function can be called while the object exists and the process runs.
Callable == alive /\ ~crashed

---------------------------------------------------------------------------
(* RDPListener::processDisplayUpdate                                       *)

\* The vector handed to parent->sendMessage: three uint16_t elements.
AckVec(fps) == <<DISPLAY_UPDATE_COMPLETE, 1, fps % Uint16>>

\* msg.at(i) throws std::out_of_range when the vector has fewer than i+1
\* elements; nothing has been changed by then.
processDisplayUpdateNoAck(msg) ==
    /\ last' = Last(msg, NoCall, Len(msg) < 5)
    /\ UNCHANGED <<outbox, targetFPS, peerLog, stop, displayVars>>

processDisplayUpdate(msg) ==
    IF Len(msg) < 5
    THEN /\ last' = Last(msg, NoCall, TRUE)
         /\ UNCHANGED <<outbox, targetFPS, peerLog, stop, displayVars>>
    ELSE \* the broadcast to the peers and the running average of their
         \* capture rates are commented out in the source
         /\ outbox' = Append(outbox, [vec |-> AckVec(targetFPS), uuid |-> uuid])
         /\ last' = Last(msg, NoCall, FALSE)
         /\ UNCHANGED <<targetFPS, peerLog, stop, displayVars>>

---------------------------------------------------------------------------
(* RDPListener::processDisplaySwitch                                       *)

\* shm_open returns a descriptor or -1.
FdResults == {-1, 3}
\* mmap on descriptor -1 fails with EBADF; otherwise it fails or returns an
\* address.
MmapResults(fd) == IF fd < 0 THEN {MAP_FAILED} ELSE {MAP_FAILED} \cup Addrs

\* the three assignments after the mapping block
SetDisplay(msg) ==
    /\ width' = msg[3]
    /\ height' = msg[4]
    /\ format' = msg[2]

\* if (!shm_buffer)
NeedsMapAlways(buf) == TRUE
NeedsMap(buf) == buf = NULL

\* what a failed mmap leaves behind: the function returns at once
MapFailedSetsDisplay(msg) ==
    /\ SetDisplay(msg)
    /\ UNCHANGED shm_buffer
MapFailed(msg) ==
    UNCHANGED <<shm_buffer, width, height, format>>

processDisplaySwitch(msg) ==
    IF Len(msg) < 4
    THEN /\ last' = Last(msg, NoCall, TRUE)
         /\ UNCHANGED <<outbox, targetFPS, peerLog, stop, displayVars>>
    ELSE /\ IF NeedsMap(shm_buffer)
            THEN \E fd \in FdResults : \E m \in MmapResults(fd) :
                    /\ shmOpens' = shmOpens + 1
                    /\ last' = Last(msg, <<fd, m>>, FALSE)
                    /\ IF m = MAP_FAILED
                       THEN /\ MapFailed(msg)
                            /\ UNCHANGED mmapsOk
                       ELSE /\ shm_buffer' = m
                            /\ mmapsOk' = mmapsOk + 1
                            /\ SetDisplay(msg)
            ELSE /\ last' = Last(msg, NoCall, FALSE)
                 /\ SetDisplay(msg)
                 /\ UNCHANGED <<shm_buffer, shmOpens, mmapsOk>>
         \* the full update to the peers is commented out in the source
         /\ UNCHANGED <<outbox, targetFPS, peerLog, stop>>

---------------------------------------------------------------------------
(* RDPListener::processIncomingMessage                                     *)

processIncomingMessage(rvec) ==
    IF rvec[1] = DISPLAY_UPDATE
    THEN processDisplayUpdate(rvec)
    ELSE IF rvec[1] = DISPLAY_SWITCH
    THEN processDisplaySwitch(rvec)
    ELSE IF rvec[1] = SHUTDOWN
    THEN /\ stop' = TRUE
         /\ last' = Last(rvec, NoCall, FALSE)
         /\ UNCHANGED <<outbox, targetFPS, peerLog, displayVars>>
    ELSE \* "Invalid message type sent."
         /\ last' = Last(rvec, NoCall, FALSE)
         /\ UNCHANGED <<outbox, targetFPS, peerLog, stop, displayVars>>

\* the entries a step appended to a log
Appended(old, new) == SubSeq(new, Len(old) + 1, Len(new))

\* An item as the worker is handed it, with its place in the order of
\* emission (seq, kept for the properties only).
Stamp(items, n) ==
    [i \in 1..Len(items) |->
        [vec |-> items[i].vec, uuid |-> items[i].uuid, seq |-> n + i]]

\* RDPServerWorker::sendMessage, called by the listener on the worker's
\* main loop: the items go to the shim at once (the note at the head of
\* processDisplayUpdate: the call is safe only on the main loop, and a
\* queue would be needed otherwise).
sendMessage(items) ==
    /\ wire' = wire \o Stamp(items, Len(emitted))
    /\ emitted' = emitted \o Stamp(items, Len(emitted))

\* The worker's main loop hands one message of the shim, out of the set
\* S, to the listener.
IncomingFrom(S) ==
    /\ Callable
    /\ nIn < MaxIn
    /\ \E rvec \in S : processIncomingMessage(rvec)
    /\ nIn' = nIn + 1
    /\ sendMessage(Appended(outbox, outbox'))
    /\ UNCHANGED <<ctorVars, runVars, alive, peerVars, farVars>>

Incoming == IncomingFrom(Msgs)

---------------------------------------------------------------------------
(* RDPListener::registerPeer and RDPListener::unregisterPeer               *)

RECURSIVE IndexOf(_, _, _)
\* std::find: the first position from i on that holds x, or Len(s)+1 (end())
IndexOf(s, x, i) ==
    IF i > Len(s) THEN Len(s) + 1
    ELSE IF s[i] = x THEN i
    ELSE IndexOf(s, x, i + 1)

\* erase(pos) for a position inside the sequence
EraseAt(s, pos) == [i \in 1..(Len(s) - 1) |-> IF i < pos THEN s[i] ELSE s[i + 1]]

\* the peers of a sequence
Range(s) == {s[i] : i \in 1..Len(s)}

\* The body of registerPeer is commented out in the source: the call
\* returns without touching peerlist or the peer.
registerPeerPushes(peer) ==
    /\ peerlist' = Append(peerlist, peer)
    /\ UNCHANGED <<sizeUnderflow, crashed, peerLog>>

registerPeer(peer) ==
    UNCHANGED <<peerlist, sizeUnderflow, crashed, peerLog>>

\* A peer thread registers its peer (a peer registers once per session).
RegisterPeer ==
    /\ Callable
    /\ \E peer \in Peers \ Range(registered) :
          /\ registerPeer(peer)
          /\ registered' = Append(registered, peer)
    /\ UNCHANGED <<sendVars, farVars>>
    /\ UNCHANGED <<ctorVars, runVars, alive, displayVars, stop, targetFPS, outbox,
                   nIn, last>>

\* What erase(end()) may do: kill the process, leave the container as it
\* was, or move its end below its begin.
EraseEndOutcomes == {"crash", "unchanged", "underflow"}

unregisterPeer(peer) ==
    LET pos == IndexOf(peerlist, peer, 1)
    IN  IF ~sizeUnderflow /\ pos <= Len(peerlist)
        THEN /\ peerlist' = EraseAt(peerlist, pos)
             /\ UNCHANGED <<sizeUnderflow, crashed>>
        ELSE \* erase at end(), or a find that runs past the end: undefined
             \E o \in EraseEndOutcomes :
                /\ crashed' = (o = "crash")
                /\ sizeUnderflow' = (sizeUnderflow \/ o = "underflow")
                /\ UNCHANGED peerlist

\* A peer thread unregisters a peer.
UnregisterPeer ==
    /\ Callable
    /\ \E peer \in Peers :
          /\ unregisterPeer(peer)
          /\ registered' = SelectSeq(registered, LAMBDA q : q # peer)
    /\ UNCHANGED <<sendVars, farVars>>
    /\ UNCHANGED <<ctorVars, runVars, alive, displayVars, stop, targetFPS, outbox,
                   peerLog, nIn, last>>

---------------------------------------------------------------------------
(* RDPListener::GetRDPFormat                                               *)

\* The format codes of pixman.h that the switch names, one that it does
\* not name (a8b8g8r8), and the pixel formats of FreeRDP's codec/color.h.
PIXMAN_r8g8b8a8 == 537495688
PIXMAN_r8g8b8x8 == 537462920
PIXMAN_a8r8g8b8 == 537036936
PIXMAN_x8r8g8b8 == 537004168
PIXMAN_r8g8b8 == 402786440
PIXMAN_b8g8r8 == 402851976
PIXMAN_r5g6b5 == 268567909
PIXMAN_x1r5g5b5 == 268567893
PIXMAN_a8b8g8r8 == 537102472
PIXEL_FORMAT_XBGR32 == 537004168
PIXEL_FORMAT_XRGB32 == 536938632
PIXEL_FORMAT_BGR24 == 402786440
PIXEL_FORMAT_RGB24 == 402720904
PIXEL_FORMAT_BGR16 == 268567909
PIXEL_FORMAT_ABGR15 == 268571989

\* lets r8g8b8 fall into the case of the 32-bit formats
GetRDPFormatFallsThrough ==
    IF format \in {PIXMAN_r8g8b8a8, PIXMAN_r8g8b8x8}
    THEN <<PIXEL_FORMAT_XBGR32, PIXEL_FORMAT_XBGR32, 4>>
    ELSE IF format \in {PIXMAN_a8r8g8b8, PIXMAN_x8r8g8b8, PIXMAN_r8g8b8}
    THEN <<PIXEL_FORMAT_XRGB32, PIXEL_FORMAT_XRGB32, 4>>
    ELSE IF format = PIXMAN_b8g8r8
    THEN <<PIXEL_FORMAT_RGB24, PIXEL_FORMAT_XRGB32, 3>>
    ELSE IF format = PIXMAN_r5g6b5
    THEN <<PIXEL_FORMAT_BGR16, PIXEL_FORMAT_XRGB32, 2>>
    ELSE IF format = PIXMAN_x1r5g5b5
    THEN <<PIXEL_FORMAT_ABGR15, PIXEL_FORMAT_XRGB32, 2>>
    ELSE <<-1, -1, -1>>

\* switch (this->format)
GetRDPFormat ==
    IF format \in {PIXMAN_r8g8b8a8, PIXMAN_r8g8b8x8}
    THEN <<PIXEL_FORMAT_XBGR32, PIXEL_FORMAT_XBGR32, 4>>
    ELSE IF format \in {PIXMAN_a8r8g8b8, PIXMAN_x8r8g8b8}
    THEN <<PIXEL_FORMAT_XRGB32, PIXEL_FORMAT_XRGB32, 4>>
    ELSE IF format = PIXMAN_r8g8b8
    THEN <<PIXEL_FORMAT_BGR24, PIXEL_FORMAT_XRGB32, 3>>
    ELSE IF format = PIXMAN_b8g8r8
    THEN <<PIXEL_FORMAT_RGB24, PIXEL_FORMAT_XRGB32, 3>>
    ELSE IF format = PIXMAN_r5g6b5
    THEN <<PIXEL_FORMAT_BGR16, PIXEL_FORMAT_XRGB32, 2>>
    ELSE IF format = PIXMAN_x1r5g5b5
    THEN <<PIXEL_FORMAT_ABGR15, PIXEL_FORMAT_XRGB32, 2>>
    ELSE <<-1, -1, -1>>

\* A peer asks the listener for the format of the framebuffer.
GetRDPFormatCall ==
    /\ Callable
    /\ rdpFormat' = [called |-> TRUE, format |-> format, result |-> GetRDPFormat]
    /\ UNCHANGED <<ctorVars, runVars, alive, peerVars, displayVars, stop,
                   targetFPS, outbox, peerLog, nIn, last, sendVars, munmaps,
                   held, useAfterFree, outQueue, nOut, shimVars,
                   authenticating, credential_path, dbusCall, peerRead>>

\* What the DBus handlers and the two getters of the credentials leave alone.
notAuthVars == <<ctorVars, runVars, alive, peerVars, displayVars, stop,
                 targetFPS, outbox, peerLog, nIn, last, sendVars, munmaps,
                 held, useAfterFree, outQueue, nOut, shimVars, rdpFormat>>

\* The credential files a caller of SetCredentialFile names.
Paths == {"/etc/a", "/etc/b"}

\* The calls the DBus thread can receive: method name and first parameter.
MethodCalls ==
    {[method |-> "SetCredentialFile", path |-> p, auth |-> FALSE,
      reply |-> "none"] : p \in Paths}
    \cup {[method |-> "SetAuthentication", path |-> "", auth |-> a,
           reply |-> "none"] : a \in BOOLEAN}
    \cup {[method |-> "Reset", path |-> "", auth |-> FALSE, reply |-> "none"]}

\* The field a method call assigns, and the field a getter returns.
FieldOf(name) ==
    CASE name \in {"SetCredentialFile", "GetCredentialPath"} -> "credential_path"
      [] name \in {"SetAuthentication", "Authenticating"} -> "authenticating"
      [] OTHER -> "none"

\* The DBus thread is between the entry of on_method_call and the end of
\* the assignment to field.
Writing(field) == field # "none" /\ FieldOf(dbusCall.method) = field

\* The peer thread is inside the getter of field.
Reading(field) ==
    /\ field # "none"
    /\ peerRead.phase = "reading"
    /\ FieldOf(peerRead.fn) = field

\* on_method_call is entered: the parameter is taken out of the variant.
\* No lock is taken.  A getter that is reading the field the call is about
\* to assign now runs concurrently with the assignment.
on_method_call_enter ==
    /\ Callable
    /\ dbusCall.method = "none"
    /\ \E call \in MethodCalls :
        /\ dbusCall' = call
        /\ peerRead' = IF Reading(FieldOf(call.method))
                       THEN [peerRead EXCEPT !.raced = TRUE]
                       ELSE peerRead
    /\ UNCHANGED <<notAuthVars, authenticating, credential_path>>

\* on_method_call assigns the field and replies; an unknown method is
\* answered with UNKNOWN_METHOD and assigns nothing.
on_method_call_return ==
    /\ Callable
    /\ dbusCall.method # "none"
    /\ credential_path' = IF dbusCall.method = "SetCredentialFile"
                          THEN dbusCall.path ELSE credential_path
    /\ authenticating' = IF dbusCall.method = "SetAuthentication"
                         THEN dbusCall.auth ELSE authenticating
    /\ dbusCall' = [NoMethod EXCEPT !.reply =
                        IF FieldOf(dbusCall.method) = "none"
                        THEN "UNKNOWN_METHOD" ELSE "value"]
    /\ UNCHANGED <<notAuthVars, peerRead>>

\* The RequiresAuthentication branch of on_property_call.  The handlers of one
\* registered object are dispatched one at a time, so it runs while the
\* DBus thread is outside on_method_call.
RequiresAuthentication ==
    /\ Callable
    /\ dbusCall.method = "none"
    /\ dbusCall' = [NoMethod EXCEPT !.auth = authenticating,
                                    !.reply = "RequiresAuthentication"]
    /\ UNCHANGED <<notAuthVars, authenticating, credential_path, peerRead>>

\* A peer thread enters GetCredentialPath or Authenticating.  No lock is
\* taken.
GetterEnter ==
    /\ Callable
    /\ peerRead.phase # "reading"
    /\ \E fn \in {"GetCredentialPath", "Authenticating"} :
        peerRead' = [fn |-> fn, phase |-> "reading", path |-> "",
                     auth |-> FALSE, raced |-> Writing(FieldOf(fn))]
    /\ UNCHANGED <<notAuthVars, authenticating, credential_path, dbusCall>>

\* What a read of the string returns when it ran concurrently with the
\* assignment: the old value, the new one, or neither.
RacedPaths == Paths \cup {"", "torn"}

\* The getter returns.  A read that ran concurrently with an assignment to
\* the same field is a data race: its result is any of the outcomes.
GetterReturn ==
    /\ Callable
    /\ peerRead.phase = "reading"
    /\ \E p \in RacedPaths, a \in BOOLEAN :
        /\ peerRead.fn = "GetCredentialPath" =>
               /\ a = FALSE
               /\ peerRead.raced \/ p = credential_path
        /\ peerRead.fn = "Authenticating" =>
               /\ p = ""
               /\ peerRead.raced \/ a = authenticating
        /\ peerRead' = [peerRead EXCEPT !.phase = "returned",
                                        !.path = p, !.auth = a]
    /\ UNCHANGED <<notAuthVars, authenticating, credential_path, dbusCall>>

\* The display switches of the shim: every format the switch of
\* GetRDPFormat names, and two it does not name.
SwitchFormats ==
    {PIXMAN_r8g8b8a8, PIXMAN_r8g8b8x8, PIXMAN_a8r8g8b8, PIXMAN_x8r8g8b8,
     PIXMAN_r8g8b8, PIXMAN_b8g8r8, PIXMAN_r5g6b5, PIXMAN_x1r5g5b5,
     PIXMAN_a8b8g8r8, 12}
SwitchMsgs == {<<DISPLAY_SWITCH, f, 1920, 1080>> : f \in SwitchFormats}

IncomingSwitch == IncomingFrom(SwitchMsgs)

---------------------------------------------------------------------------
(* RDPListener::on_property_call                                           *)

\* peerlist.size() as a uint32_t.  A container whose end lies below its
\* begin reports a size near the top of the range (0xFFFFFFFF once cut to
\* 32 bits); the largest integer of the model checker stands for it.
HugeSize == 2147483647
NumConnectedPeers == IF sizeUnderflow THEN HugeSize ELSE Len(peerlist)

on_property_call(property_name) ==
    IF property_name = "Port" THEN port
    ELSE IF property_name = "NumConnectedPeers" THEN NumConnectedPeers
    ELSE -1

---------------------------------------------------------------------------
(* RDPListener::RunServer, one action per call that may send it to the     *)
(* cleanup label, and RDPListener::~RDPListener                            *)

\* an error branch that returns instead of going to the cleanup label
GotoCleanupReturns(path) ==
    /\ pc' = "returned"
    /\ exitPath' = path

\* goto cleanup
GotoCleanup(path) ==
    /\ pc' = "cleanup"
    /\ exitPath' = path

\* shadow_server_init(this->server) < 0
RunServer_init ==
    /\ Callable
    /\ pc = "Created"
    /\ \E r \in {-1, 0} :
          IF r < 0
          THEN GotoCleanup("init_failed") /\ UNCHANGED server
          ELSE pc' = "introspect" /\ server' = "initialised" /\ UNCHANGED exitPath
    /\ UNCHANGED <<sendVars, farVars>>
    /\ UNCHANGED <<ctorVars, alive, dbus_registered, unregisterVM, peerVars,
                   displayVars, stop, targetFPS, outbox, peerLog, nIn, last>>

\* NodeInfo::create_for_xml throws Glib::Error (caught: goto cleanup) or
\* returns; then register_object registers the object or throws, and
\* nothing in RunServer catches that: the exception leaves the function.
RunServer_introspect ==
    /\ Callable
    /\ pc = "introspect"
    /\ \E outcome \in {"xml_throws", "register_throws", "ok"} :
          IF outcome = "xml_throws"
          THEN GotoCleanup("introspection_failed") /\ UNCHANGED dbus_registered
          ELSE IF outcome = "register_throws"
          THEN pc' = "threw" /\ UNCHANGED <<exitPath, dbus_registered>>
          ELSE pc' = "start" /\ dbus_registered' = TRUE /\ UNCHANGED exitPath
    /\ UNCHANGED <<sendVars, farVars>>
    /\ UNCHANGED <<ctorVars, alive, server, unregisterVM, peerVars, displayVars,
                   stop, targetFPS, outbox, peerLog, nIn, last>>

\* shadow_server_start(this->server) < 0
RunServer_start ==
    /\ Callable
    /\ pc = "start"
    /\ \E status \in {-1, 0} :
          IF status < 0
          THEN GotoCleanup("start_failed") /\ UNCHANGED server
          ELSE pc' = "waiting" /\ server' = "running" /\ UNCHANGED exitPath
    /\ UNCHANGED <<sendVars, farVars>>
    /\ UNCHANGED <<ctorVars, alive, dbus_registered, unregisterVM, peerVars,
                   displayVars, stop, targetFPS, outbox, peerLog, nIn, last>>

\* The shadow server's thread ends (it is run by the FreeRDP library).
ServerThreadExit ==
    /\ ~crashed
    /\ server = "running"
    /\ server' = "exited"
    /\ UNCHANGED <<sendVars, farVars>>
    /\ UNCHANGED <<ctorVars, pc, exitPath, dbus_registered, unregisterVM,
                   alive, peerVars, displayVars, stop, targetFPS, outbox,
                   peerLog, nIn, last>>

\* WaitForSingleObject returns once the thread has ended; GetExitCodeThread
\* only sets the local status, which is logged.
RunServer_wait ==
    /\ Callable
    /\ pc = "waiting"
    /\ server = "exited"
    /\ GotoCleanup("main_loop_exited")
    /\ UNCHANGED <<sendVars, farVars>>
    /\ UNCHANGED <<ctorVars, alive, server, dbus_registered, unregisterVM, peerVars,
                   displayVars, stop, targetFPS, outbox, peerLog, nIn, last>>

\* cleanup: parent->UnregisterVM(this->uuid, this->port)
RunServer_cleanup ==
    /\ Callable
    /\ pc = "cleanup"
    /\ unregisterVM' = Append(unregisterVM, [uuid |-> uuid, port |-> port])
    /\ pc' = "returned"
    /\ UNCHANGED <<sendVars, farVars>>
    /\ UNCHANGED <<ctorVars, alive, exitPath, server, dbus_registered, peerVars,
                   displayVars, stop, targetFPS, outbox, peerLog, nIn, last>>

\* ~RDPListener, run by the worker once UnregisterVM has dropped the listener
Destructor ==
    /\ Callable
    /\ unregisterVM # << >>
    /\ stop' = TRUE
    /\ dbus_registered' = FALSE
    /\ server' = "freed"
    /\ alive' = FALSE
    /\ UNCHANGED <<sendVars, farVars>>
    /\ UNCHANGED <<ctorVars, pc, exitPath, unregisterVM, peerVars, displayVars,
                   targetFPS, outbox, peerLog, nIn, last>>

---------------------------------------------------------------------------
(* RDPListener::processOutgoingMessage and the worker's outgoing queue     *)

\* The vectors a peer thread hands over: a mouse and a keyboard event.
PeerVecs == {<<MOUSE, 10, 20, 1>>, <<KEYBOARD, 30, 1>>}

\* parent->queueOutgoingMessage(item): the item joins the worker's queue
queueOutgoingMessage(item) ==
    /\ outQueue' = outQueue \o Stamp(<<item>>, Len(emitted))
    /\ emitted' = emitted \o Stamp(<<item>>, Len(emitted))
    /\ UNCHANGED wire

processOutgoingMessage(vec) ==
    queueOutgoingMessage([vec |-> vec, uuid |-> uuid])

\* A peer thread hands an input event to the listener.
OutgoingMessage ==
    /\ Callable
    /\ nOut < MaxOut
    /\ \E vec \in PeerVecs : processOutgoingMessage(vec)
    /\ nOut' = nOut + 1
    /\ UNCHANGED <<ctorVars, runVars, alive, peerVars, displayVars, stop,
                   targetFPS, outbox, peerLog, nIn, last, munmaps, held,
                   useAfterFree, shimVars, apiVars>>

\* The worker takes the item at the head of its queue and writes it to the
\* shim.
WorkerWrite ==
    /\ ~crashed
    /\ outQueue # << >>
    /\ wire' = Append(wire, Head(outQueue))
    /\ outQueue' = Tail(outQueue)
    /\ UNCHANGED <<ctorVars, runVars, alive, peerVars, displayVars, stop,
                   targetFPS, outbox, peerLog, nIn, last, munmaps, held,
                   useAfterFree, emitted, nOut, shimVars, apiVars>>

---------------------------------------------------------------------------
(* msgpack.c: the write side.  The cmp library turns every cmp_write_*     *)
(* call into calls of mux_msg_writer: one for a marker byte and, for an    *)
(* integer above 127, one more for its big-endian bytes.                   *)

\* malloc_usable_size of a fresh allocation of count bytes: the request
\* itself, or the smallest chunk of the allocator (24 bytes with glibc on
\* 64 bits).
MinChunk == 24
MallocUsable(count) == {count, MinChunk}

RECURSIVE Pow256(_)
Pow256(n) == IF n = 0 THEN 1 ELSE 256 * Pow256(n - 1)
\* the n bytes of v, most significant first
BE(v, n) == [i \in 1..n |-> (v \div Pow256(n - i)) % 256]

\* mux_nnstr_init(msg, msg->buf, size): buf stays, the iterator is reset
mux_nnstr_init(m, size) == [m EXCEPT !.size = size, !.pos = 0, !.data = << >>]

\* mux_msg_writer without the reallocation: the bytes are copied at pos
\* whatever the size of the buffer
mux_msg_writerNoGrow(m, data, usable) ==
    LET count == Len(data)
        m1 == IF m.buf = "NULL"
              THEN [m EXCEPT !.buf = "live", !.cap = usable, !.size = usable]
              ELSE m
    IN  [msg |-> [m1 EXCEPT !.data = @ \o data,
                            !.pos = @ + count,
                            !.overrun = @ \/ (m1.pos + count > m1.cap)],
         ret |-> count]

\* mux_msg_writer: returns the nnStr and the count written.  g_malloc0 and
\* g_realloc abort the process when memory runs out, so that they return
\* NULL only for a size of 0, where g_realloc frees the buffer.
mux_msg_writer(m, data, usable) ==
    LET count == Len(data)
        Copy(m1) ==
            [msg |-> [m1 EXCEPT !.data = @ \o data,
                                !.pos = @ + count,
                                !.overrun = @ \/ (m1.pos + count > m1.cap)],
             ret |-> count]
    IN  IF m.buf = "NULL"
        THEN Copy([m EXCEPT !.buf = "live", !.cap = usable, !.size = usable])
        ELSE IF m.pos + count > m.size
        THEN IF m.size * 2 = 0
             THEN [msg |-> [m EXCEPT !.buf = "freed", !.cap = 0], ret |-> 0]
             ELSE Copy([m EXCEPT !.cap = m.size * 2, !.size = m.size * 2])
        ELSE Copy(m)

\* cmp_write_array for a length below 16: the marker 0x90 + n
cmp_write_array(m, n, usable) == mux_msg_writer(m, <<144 + n>>, usable).msg

\* cmp_write_uint: the smallest of positive fixint, uint8 (0xcc), uint16
\* (0xcd) and uint32 (0xce) that holds u; the bytes follow the marker in a
\* second write, which is not made when the first one fails.
cmp_write_uint(m, u, usable) ==
    IF u <= 127
    THEN mux_msg_writer(m, <<u>>, usable).msg
    ELSE LET marker == IF u <= 255 THEN 204 ELSE IF u <= 65535 THEN 205 ELSE 206
             nbytes == IF u <= 255 THEN 1 ELSE IF u <= 65535 THEN 2 ELSE 4
             r == mux_msg_writer(m, <<marker>>, usable)
         IN  IF r.ret # 1 THEN r.msg
             ELSE mux_msg_writer(r.msg, BE(u, nbytes), usable).msg

\* writes x2 and y2 where the source writes the width and the height
mux_write_outgoing_update_msgCorners(m, update, usable) ==
    LET u == update.args
        a == cmp_write_array(m, 5, usable)
        b == cmp_write_uint(a, update.type, usable)
        c == cmp_write_uint(b, u[1], usable)
        d == cmp_write_uint(c, u[2], usable)
        e == cmp_write_uint(d, u[3], usable)
    IN  cmp_write_uint(e, u[4], usable)

\* update->disp_update is (x1, y1, x2, y2); a failed write is only logged
mux_write_outgoing_update_msg(m, update, usable) ==
    LET u == update.args
        a == cmp_write_array(m, 5, usable)
        b == cmp_write_uint(a, update.type, usable)
        c == cmp_write_uint(b, u[1], usable)
        d == cmp_write_uint(c, u[2], usable)
        e == cmp_write_uint(d, u[3] - u[1], usable)
    IN  cmp_write_uint(e, u[4] - u[2], usable)

\* update->disp_switch is (format, w, h)
mux_write_outgoing_switch_msg(m, update, usable) ==
    LET u == update.args
        a == cmp_write_array(m, 4, usable)
        b == cmp_write_uint(a, update.type, usable)
        c == cmp_write_uint(b, u[1], usable)
        d == cmp_write_uint(c, u[2], usable)
    IN  cmp_write_uint(d, u[3], usable)

mux_write_outgoing_shutdown_msg(m, usable) ==
    cmp_write_uint(cmp_write_array(m, 1, usable), SHUTDOWN, usable)

\* mux_write_outgoing_msg: returns the nnStr and the value returned, which
\* is msg->size on both return statements.
mux_write_outgoing_msg(update, m, usable) ==
    LET m0 == mux_nnstr_init(m, 0)
        m1 == IF update.null
              THEN mux_write_outgoing_shutdown_msg(m0, usable)
              ELSE IF update.type = DISPLAY_UPDATE
              THEN mux_write_outgoing_update_msg(m0, update, usable)
              ELSE IF update.type = DISPLAY_SWITCH
              THEN mux_write_outgoing_switch_msg(m0, update, usable)
              ELSE m0
    IN  [msg |-> m1, ret |-> m1.size]

\* The updates handed to mux_write_outgoing_msg.  The coordinates and
\* their differences take every width of the encoding (one byte, uint8,
\* uint16, uint32) and make rectangles with x1 <= x2 and y1 <= y2.
XCoords == {10, 110, 300, 70000}
YCoords == {20, 220}
Dims == {640, 1920}
WireFormats == {12, 537495688}
Update(type, args) == [null |-> FALSE, type |-> type, args |-> args]
Updates ==
    {NullUpdate}
    \cup {Update(DISPLAY_UPDATE, q) :
            q \in {r \in XCoords \X YCoords \X XCoords \X YCoords :
                      r[1] <= r[3] /\ r[2] <= r[4]}}
    \cup {Update(DISPLAY_SWITCH, q) : q \in WireFormats \X Dims \X Dims}
    \cup {Update(MOUSE, <<10, 20, 1>>)}

\* mux_write_outgoing_msg on a blank nnStr, for every update and every
\* size the first allocation (of the one byte of the array marker) may
\* have.
Encoded ==
    [update \in Updates, usable \in MallocUsable(1) |->
        mux_write_outgoing_msg(update, BlankMsg, usable)]

\* The shim encodes one update into a blank nnStr.
WriteOutgoing ==
    /\ nnstr.buf # "aborted"
    /\ \E update \in Updates : \E usable \in MallocUsable(1) :
          LET r == Encoded[update, usable]
          IN  /\ nnstr' = r.msg
              /\ enc' = [called |-> TRUE, update |-> update,
                         usable |-> usable, ret |-> r.ret]
    /\ UNCHANGED <<muxVars, rx, framerate>>

\* g_realloc(buf, 0) on a buffer that g_realloc(buf, 0) has freed before is
\* a double free: the allocator aborts the process, or goes on with buf
\* still dangling.
DoubleFreeOutcomes == {"aborted", "freed"}

\* The shim encodes one update into the nnStr of an earlier call, whose
\* buffer mux_nnstr_init keeps while it sets size to 0.  The first write
\* finds pos + count > 0 and calls g_realloc(buf, 0), which frees the
\* buffer and returns NULL; every later write of the message does so again
\* with the dangling pointer.  No allocation is made.
WriteOutgoingReused ==
    /\ nnstr.buf \in {"live", "freed"}
    /\ \E update \in Updates : \E outcome \in DoubleFreeOutcomes :
          LET r == mux_write_outgoing_msg(update, nnstr, 0)
          IN  /\ nnstr' = IF r.msg.buf = "freed"
                          THEN [r.msg EXCEPT !.buf = outcome]
                          ELSE r.msg
              /\ enc' = [called |-> TRUE, update |-> update,
                         usable |-> 0, ret |-> r.ret]
    /\ UNCHANGED <<muxVars, rx, framerate>>

---------------------------------------------------------------------------
(* msgpack.c: the read side.  cmp_read_array and cmp_read_uint read one    *)
(* object through mux_msg_reader: a marker byte and, for the wider         *)
(* encodings, the big-endian bytes that follow it.                         *)

\* mux_msg_reader: limit bytes at pos, unless they end past size
mux_msg_reader(frame, size, pos, limit) ==
    IF pos + limit > size
    THEN [ok |-> FALSE, bytes |-> << >>, pos |-> pos]
    ELSE [ok |-> TRUE, bytes |-> SubSeq(frame, pos + 1, pos + limit),
          pos |-> pos + limit]

RECURSIVE FromBE(_)
\* the number whose big-endian bytes are bs
FromBE(bs) ==
    IF bs = << >> THEN 0
    ELSE 256 * FromBE(SubSeq(bs, 1, Len(bs) - 1)) + bs[Len(bs)]

\* a read that failed
NoObject(pos) == [ok |-> FALSE, type |-> "none", val |-> 0, pos |-> pos]

\* cmp_read_object: positive fixint, fixarray (0x90-0x9f), uint8 (0xcc),
\* uint16 (0xcd), uint32 (0xce), array16 (0xdc) and array32 (0xdd); every
\* other marker is an object that is neither an array nor an unsigned
\* integer of 32 bits.
cmp_read_object(frame, size, pos) ==
    LET t == mux_msg_reader(frame, size, pos, 1)
        b == t.bytes[1]
        Data(n, type) ==
            LET d == mux_msg_reader(frame, size, t.pos, n)
            IN  IF d.ok
                THEN [ok |-> TRUE, type |-> type, val |-> FromBE(d.bytes), pos |-> d.pos]
                ELSE NoObject(t.pos)
    IN  IF ~t.ok THEN NoObject(pos)
        ELSE IF b <= 127 THEN [ok |-> TRUE, type |-> "uint", val |-> b, pos |-> t.pos]
        ELSE IF b \in 144..159
        THEN [ok |-> TRUE, type |-> "array", val |-> b - 144, pos |-> t.pos]
        ELSE IF b = 204 THEN Data(1, "uint")
        ELSE IF b = 205 THEN Data(2, "uint")
        ELSE IF b = 206 THEN Data(4, "uint")
        ELSE IF b = 220 THEN Data(2, "array")
        ELSE IF b = 221 THEN Data(4, "array")
        ELSE [ok |-> TRUE, type |-> "other", val |-> 0, pos |-> t.pos]

cmp_read_array(frame, size, pos) ==
    LET o == cmp_read_object(frame, size, pos)
    IN  IF o.ok /\ o.type = "array" THEN o ELSE NoObject(o.pos)

cmp_read_uint(frame, size, pos) ==
    LET o == cmp_read_object(frame, size, pos)
    IN  IF o.ok /\ o.type = "uint" THEN o ELSE NoObject(o.pos)

\* fires the callback although flags could not be read
mux_process_incoming_kb_msgLax(frame, size, pos) ==
    LET keycode == cmp_read_uint(frame, size, pos)
        flags == cmp_read_uint(frame, size, keycode.pos)
    IN  IF ~keycode.ok THEN NoCallback
        ELSE [fn |-> "mux_receive_kb", args |-> <<keycode.val, flags.val>>]

\* mux_process_incoming_kb_msg: the callback fired, if any
mux_process_incoming_kb_msg(frame, size, pos) ==
    LET keycode == cmp_read_uint(frame, size, pos)
        flags == cmp_read_uint(frame, size, keycode.pos)
    IN  IF ~keycode.ok THEN NoCallback
        ELSE IF ~flags.ok THEN NoCallback
        ELSE [fn |-> "mux_receive_kb", args |-> <<keycode.val, flags.val>>]

\* mux_process_incoming_mouse_msg: the callback fired, if any
mux_process_incoming_mouse_msg(frame, size, pos) ==
    LET mouse_x == cmp_read_uint(frame, size, pos)
        mouse_y == cmp_read_uint(frame, size, mouse_x.pos)
        flags == cmp_read_uint(frame, size, mouse_y.pos)
    IN  IF ~mouse_x.ok THEN NoCallback
        ELSE IF ~mouse_y.ok THEN NoCallback
        ELSE IF ~flags.ok THEN NoCallback
        ELSE [fn |-> "mux_receive_mouse",
              args |-> <<mouse_x.val, mouse_y.val, flags.val>>]

\* mux_process_incoming_complete_msg: display->framerate after the call,
\* given its value before.  mux_process_incoming_msg does not call it.
mux_process_incoming_complete_msg(frame, size, pos, old_framerate) ==
    LET success == cmp_read_uint(frame, size, pos)
        new_framerate == cmp_read_uint(frame, size, success.pos)
    IN  IF ~success.ok THEN old_framerate
        ELSE IF success.val # 1 THEN old_framerate
        ELSE IF ~new_framerate.ok THEN old_framerate
        ELSE new_framerate.val

\* mux_process_incoming_msg(buf, nbytes): the callback fired and whether
\* free(msg.buf) was reached.  The case DISPLAY_UPDATE_COMPLETE is a bare
\* break, like the default case: no branch writes display->framerate.
mux_process_incoming_msg(frame, nbytes) ==
    LET array_size == cmp_read_array(frame, nbytes, 0)
        msg_type == cmp_read_uint(frame, nbytes, array_size.pos)
    IN  IF ~array_size.ok THEN [fired |-> NoCallback, freed |-> FALSE]
        ELSE IF ~msg_type.ok THEN [fired |-> NoCallback, freed |-> FALSE]
        ELSE [fired |->
                 IF msg_type.val = MOUSE
                 THEN mux_process_incoming_mouse_msg(frame, nbytes, msg_type.pos)
                 ELSE IF msg_type.val = KEYBOARD
                 THEN mux_process_incoming_kb_msg(frame, nbytes, msg_type.pos)
                 ELSE NoCallback,
              freed |-> TRUE]

RECURSIVE WriteUints(_, _)
WriteUints(m, vals) ==
    IF vals = << >> THEN m
    ELSE WriteUints(cmp_write_uint(m, Head(vals), MinChunk), Tail(vals))
\* the bytes of an array of unsigned integers, as the multiplexer sends it
PackArray(vals) ==
    WriteUints(cmp_write_array(BlankMsg, Len(vals), MinChunk), vals).data

\* every prefix of a frame, the frame included
Prefixes(frame) == {SubSeq(frame, 1, n) : n \in 0..Len(frame)}

\* The frames handed to mux_process_incoming_msg: a mouse and a keyboard
\* event, two acks, a shutdown, a display update and an array with an
\* undefined tag, each with all its prefixes; frames in which nil (0xc0)
\* takes the place of the array, of the tag or of a field; and a keyboard
\* event with an array16 header.
WireVecs ==
    {<<MOUSE, 10, 300, 1>>, <<KEYBOARD, 300, 1>>,
     <<DISPLAY_UPDATE_COMPLETE, 1, 25>>, <<DISPLAY_UPDATE_COMPLETE, 0, 25>>,
     <<SHUTDOWN>>, <<DISPLAY_UPDATE, 10, 20, 100, 200>>, <<MaxTag, 1, 2>>}
Frames ==
    UNION {Prefixes(PackArray(v)) : v \in WireVecs}
    \cup {<<192>>, <<147, 192, 1, 2>>,
          PackArray(<<KEYBOARD>>) \o <<192, 1>>,
          PackArray(<<KEYBOARD, 30>>) \o <<192>>,
          PackArray(<<MOUSE, 10, 20>>) \o <<192>>,
          <<220, 0, 3>> \o <<KEYBOARD, 30, 1>>}

\* the frames the encoder can produce
EncodedFrames == {Encoded[k].msg.data : k \in DOMAIN Encoded}

\* mux_process_incoming_msg on every frame, with nbytes the frame's length
Decoded ==
    [frame \in Frames \cup EncodedFrames |->
        mux_process_incoming_msg(frame, Len(frame))]

\* The shim receives one frame of the multiplexer, or is handed back the
\* bytes it has just encoded.
ProcessIncoming ==
    /\ nnstr.buf # "aborted"
    /\ \E frame \in Frames \cup {nnstr.data} :
          LET r == Decoded[frame]
          IN  rx' = [called |-> TRUE, frame |-> frame, fired |-> r.fired,
                     freed |-> r.freed]
    /\ UNCHANGED <<muxVars, nnstr, enc, framerate>>

---------------------------------------------------------------------------
(* The worker's main loop, as the specification describes the worker (its  *)
(* code is not part of the sources): the registry is locked for the lookup *)
(* only, never across the call into the listener, and UnregisterVM, which  *)
(* RunServer calls on its own thread, takes the listener out of the        *)
(* registry and destroys it.                                               *)

\* What a member function called on a destroyed object may do: kill the
\* process, or run over the memory the object was in.
UseAfterFreeOutcomes == {"crash", "runs"}

\* The main loop looks the listener of a message up in the registry.
WorkerLookup ==
    /\ ~crashed
    /\ ~held
    /\ nIn < MaxIn
    /\ unregisterVM = << >>
    /\ held' = TRUE
    /\ UNCHANGED <<ctorVars, runVars, alive, peerVars, displayVars, stop,
                   targetFPS, outbox, peerLog, nIn, last, sendVars, munmaps,
                   useAfterFree, outQueue, nOut, shimVars, apiVars>>

\* The main loop calls processIncomingMessage on the listener it looked up.
WorkerDispatch ==
    /\ ~crashed
    /\ held
    /\ held' = FALSE
    /\ \E rvec \in Msgs :
          IF alive
          THEN /\ processIncomingMessage(rvec)
               /\ nIn' = nIn + 1
               /\ sendMessage(Appended(outbox, outbox'))
               /\ UNCHANGED <<useAfterFree, peerVars>>
          ELSE /\ useAfterFree' = TRUE
               /\ \E o \in UseAfterFreeOutcomes :
                     IF o = "crash"
                     THEN /\ crashed' = TRUE
                          /\ UNCHANGED <<outbox, targetFPS, peerLog, stop,
                                         displayVars, nIn, last, sendVars,
                                         peerlist, sizeUnderflow, registered>>
                     ELSE /\ processIncomingMessage(rvec)
                          /\ nIn' = nIn + 1
                          /\ sendMessage(Appended(outbox, outbox'))
                          /\ UNCHANGED peerVars
    /\ UNCHANGED <<ctorVars, runVars, alive, munmaps, outQueue, nOut, shimVars, apiVars>>

---------------------------------------------------------------------------

(* The whole listener: every thread that calls into it.                    *)

Next ==
    \/ Incoming
    \/ RegisterPeer
    \/ UnregisterPeer
    \/ RunServer_init
    \/ RunServer_introspect
    \/ RunServer_start
    \/ ServerThreadExit
    \/ RunServer_wait
    \/ RunServer_cleanup
    \/ Destructor

Spec == Init /\ [][Next]_vars

(* The worker's main loop and the peer threads.  The RunServer thread and  *)
(* the destructor write none of the variables these three actions write    *)
(* except stop, which no action reads; by clearing alive the destructor    *)
(* only ends the calls.  Every behaviour of Spec, cut before the           *)
(* destructor and with the RunServer steps left out, is a behaviour of     *)
(* SpecDisplay.                                                            *)

NextDisplay ==
    \/ Incoming
    \/ RegisterPeer
    \/ UnregisterPeer

SpecDisplay == Init /\ [][NextDisplay]_vars

(* The RunServer thread, the shadow server's thread, the destructor and    *)
(* the worker's main loop, with no peer connecting.  The peer threads      *)
(* write only peerlist and the history of registrations, or end the        *)
(* process: every behaviour of Spec with the peer steps left out is a      *)
(* behaviour of SpecRun.                                                   *)

NextRun ==
    \/ Incoming
    \/ RunServer_init
    \/ RunServer_introspect
    \/ RunServer_start
    \/ ServerThreadExit
    \/ RunServer_wait
    \/ RunServer_cleanup
    \/ Destructor

SpecRun == Init /\ [][NextRun]_vars

(* SpecRun with a fair RunServer thread: the thread that the worker        *)
(* started for RunServer is scheduled, so every step of it that stays      *)
(* possible is taken.  Nothing is assumed of the shadow server's thread,   *)
(* which the FreeRDP library runs until it is told to stop, nor of the     *)
(* shim, which sends messages when it likes.                               *)
SpecRunFair ==
    /\ SpecRun
    /\ WF_vars(RunServer_init)
    /\ WF_vars(RunServer_introspect)
    /\ WF_vars(RunServer_start)
    /\ WF_vars(RunServer_wait)
    /\ WF_vars(RunServer_cleanup)

(* The two ways out of the listener: the acks of the main loop and the     *)
(* input events of the peer threads, with the worker writing its queue     *)
(* out.                                                                    *)

NextOutbound ==
    \/ Incoming
    \/ OutgoingMessage
    \/ WorkerWrite

SpecOutbound == Init /\ [][NextOutbound]_vars

(* The shim library's encoder on its own.                                  *)

NextEncode == WriteOutgoing

SpecEncode == Init /\ [][NextEncode]_vars

(* The encoder on a blank nnStr and on the nnStr of an earlier call.       *)

NextGrow ==
    \/ WriteOutgoing
    \/ WriteOutgoingReused

SpecGrow == Init /\ [][NextGrow]_vars

(* The display switches of the shim and the peers' calls of GetRDPFormat.  *)

NextFormat ==
    \/ IncomingSwitch
    \/ GetRDPFormatCall

SpecFormat == Init /\ [][NextFormat]_vars

(* The DBus thread in the handlers of the control interface and a peer     *)
(* thread in the getters of the credentials.                               *)

NextAuth ==
    \/ on_method_call_enter
    \/ on_method_call_return
    \/ RequiresAuthentication
    \/ GetterEnter
    \/ GetterReturn

SpecAuth == Init /\ [][NextAuth]_vars

(* The two receivers of frames: the shim library's decoder and, in the     *)
(* multiplexer, the listener behind the worker's main loop.                *)

NextReceive ==
    \/ ProcessIncoming
    \/ Incoming

SpecReceive == Init /\ [][NextReceive]_vars

(* The shim library: the encoder and the decoder.                          *)

NextCodec ==
    \/ WriteOutgoing
    \/ ProcessIncoming

SpecCodec == Init /\ [][NextCodec]_vars

(* The RunServer thread, the shadow server's thread and the destructor,    *)
(* with the worker's main loop taken in its two steps: the lookup and the  *)
(* call.                                                                   *)

NextLifetime ==
    \/ WorkerLookup
    \/ WorkerDispatch
    \/ RunServer_init
    \/ RunServer_introspect
    \/ RunServer_start
    \/ ServerThreadExit
    \/ RunServer_wait
    \/ RunServer_cleanup
    \/ Destructor

SpecLifetime == Init /\ [][NextLifetime]_vars

---------------------------------------------------------------------------
(* Vocabulary of the properties.                                           *)

\* the last incoming vector is a DisplayUpdate with its four fields
IsDisplayUpdate(m) == Len(m) >= 5 /\ m[1] = DISPLAY_UPDATE
\* the last incoming vector is a DisplaySwitch with its three fields
IsDisplaySwitch(m) == Len(m) >= 4 /\ m[1] = DISPLAY_SWITCH

\* how many entries of a log equal e
Count(log, e) == Cardinality({i \in 1..Len(log) : log[i] = e})

PartialUpdate(peer, x, y, w, h) ==
    [peer |-> peer, kind |-> "partialUpdate", args |-> <<x, y, w, h>>]
FullUpdate(peer, w, h, f) ==
    [peer |-> peer, kind |-> "fullUpdate", args |-> <<w, h, f>>]

\* the clamp and the running average of the specification
Clamp(fps) == IF fps < 3 THEN 3 ELSE IF fps > 30 THEN 30 ELSE fps
RECURSIVE RunningAverage(_, _)
RunningAverage(fps, peers) ==
    IF peers = << >> THEN fps
    ELSE RunningAverage(Clamp((fps + GetCaptureFps(Head(peers))) \div 2), Tail(peers))

RECURSIVE ReadUints(_, _, _)
\* the n unsigned integers of a frame from pos on and the position after
\* them; ok is FALSE when one of them cannot be read
ReadUints(frame, pos, n) ==
    IF n = 0 THEN [ok |-> TRUE, elems |-> << >>, pos |-> pos]
    ELSE LET o == cmp_read_uint(frame, Len(frame), pos)
             rest == ReadUints(frame, o.pos, n - 1)
         IN  IF o.ok /\ rest.ok
             THEN [ok |-> TRUE, elems |-> <<o.val>> \o rest.elems, pos |-> rest.pos]
             ELSE [ok |-> FALSE, elems |-> << >>, pos |-> pos]

\* a frame read as one array of unsigned integers: its declared length,
\* its elements and the position after the last one
Unpack(frame) ==
    LET a == cmp_read_array(frame, Len(frame), 0)
        e == ReadUints(frame, a.pos, a.val)
    IN  IF a.ok /\ e.ok
        THEN [ok |-> TRUE, len |-> a.val, elems |-> e.elems, pos |-> e.pos]
        ELSE [ok |-> FALSE, len |-> 0, elems |-> << >>, pos |-> 0]

\* the update is one of the three events the shim sends
IsShimEvent(update) ==
    update.null \/ update.type \in {DISPLAY_UPDATE, DISPLAY_SWITCH}

\* the array of the protocol table for an update of the shim
WireArray(update) ==
    IF update.null THEN <<SHUTDOWN>>
    ELSE IF update.type = DISPLAY_UPDATE
    THEN <<DISPLAY_UPDATE, update.args[1], update.args[2],
           update.args[3] - update.args[1], update.args[4] - update.args[2]>>
    ELSE <<DISPLAY_SWITCH>> \o update.args

\* the event of the protocol table an update stands for: its tag and its
\* fields
EventOf(update) ==
    IF IsShimEvent(update) THEN WireArray(update)
    ELSE <<update.type>> \o update.args

\* the event the decoder delivered through a callback, if any
Delivered(fired) ==
    IF fired.fn = "mux_receive_mouse" THEN <<MOUSE>> \o fired.args
    ELSE IF fired.fn = "mux_receive_kb" THEN <<KEYBOARD>> \o fired.args
    ELSE << >>

\* the number of fields the protocol table gives a tag
FieldCount(tag) ==
    IF tag = DISPLAY_UPDATE THEN 4
    ELSE IF tag \in {DISPLAY_SWITCH, MOUSE} THEN 3
    ELSE IF tag \in {DISPLAY_UPDATE_COMPLETE, KEYBOARD} THEN 2
    ELSE 0

\* a frame that ends before the fields of its tag are read, or whose tag
\* is not defined, or in which the array, the tag or a field is not what
\* it has to be
Malformed(frame) ==
    LET a == cmp_read_array(frame, Len(frame), 0)
        t == cmp_read_uint(frame, Len(frame), a.pos)
    IN  \/ ~a.ok
        \/ ~t.ok
        \/ t.val \notin DISPLAY_UPDATE..SHUTDOWN
        \/ ~ReadUints(frame, t.pos, FieldCount(t.val)).ok

\* the malformed ones among the frames the decoder is handed
MalformedFrames == {frame \in Frames \cup EncodedFrames : Malformed(frame)}

\* a vector that carries the tag of a display update or switch and fewer
\* fields than the tag has
TooFewFields(m) ==
    \/ m[1] = DISPLAY_UPDATE /\ Len(m) < 5
    \/ m[1] = DISPLAY_SWITCH /\ Len(m) < 4

---------------------------------------------------------------------------
(* C1.  Every processIncomingMessage call that carries a DisplayUpdate     *)
(* with its four fields hands exactly one DisplayUpdateComplete(1,         *)
(* targetFPS), with the listener's uuid, to the worker within that call,   *)
(* hence before the next message is processed; no other message and no     *)
(* other thread hands the worker anything.                                 *)
C1_AckPerDisplayUpdate ==
    [][ /\ (nIn' = nIn + 1 /\ IsDisplayUpdate(last'.msg))
            => outbox' = Append(outbox,
                   [vec |-> <<DISPLAY_UPDATE_COMPLETE, 1, targetFPS'>>, uuid |-> uuid])
        /\ (nIn' = nIn + 1 /\ ~IsDisplayUpdate(last'.msg)) => outbox' = outbox
        /\ nIn' = nIn => outbox' = outbox ]_vars

\* two messages were processed, the last one a DisplayUpdate, and one ack
\* is in the worker's hands
C1_Witness ==
    /\ nIn = 2
    /\ IsDisplayUpdate(last.msg)
    /\ outbox = << [vec |-> <<DISPLAY_UPDATE_COMPLETE, 1, 30>>, uuid |-> uuid] >>

(* C2.  Once stop is set, a processIncomingMessage call changes neither    *)
(* width, height, format nor the mapping, sends nothing to the peers and   *)
(* hands no DisplayUpdateComplete to the worker.                           *)
C2_StoppedIsNoOp ==
    [][ (stop /\ nIn' = nIn + 1)
            => UNCHANGED <<width, height, format, shm_buffer, peerLog, outbox>> ]_vars

(* C3.  targetFPS is within [3, 30] in every state, and so is the          *)
(* framerate of every DisplayUpdateComplete handed to the worker.          *)
C3_TargetFPSInRange ==
    /\ targetFPS \in 3..30
    /\ \A i \in 1..Len(outbox) : outbox[i].vec[3] \in 3..30

\* acks were sent around the registration of both peers, one of which
\* reports a capture rate of 100
C3_Witness ==
    /\ Len(outbox) = 2
    /\ Range(registered) = Peers
    /\ \E p \in Peers : GetCaptureFps(p) > 30

(* C4.  A DisplayUpdate processed while peers are registered moves         *)
(* targetFPS to the running average over the peers' capture rates,         *)
(* clamped to [3, 30] after each peer, and the ack carries that value.     *)
C4_RunningAverage ==
    [][ (nIn' = nIn + 1 /\ IsDisplayUpdate(last'.msg) /\ registered # << >>)
            => /\ targetFPS' = RunningAverage(targetFPS, registered)
               /\ outbox' # << >>
               /\ outbox'[Len(outbox')].vec[3] = targetFPS' ]_vars

(* C5.  The framebuffer is mapped at most once: once shm_buffer is set, no *)
(* step calls shm_open or mmap again or changes shm_buffer, and a          *)
(* DisplaySwitch sets width, height and format to the values it carries.   *)
C5_MappedAtMostOnce ==
    [][ /\ mmapsOk' <= 1
        /\ shm_buffer # NULL
            => /\ shm_buffer' = shm_buffer
               /\ shmOpens' = shmOpens
               /\ mmapsOk' = mmapsOk
               /\ (nIn' = nIn + 1 /\ IsDisplaySwitch(last'.msg))
                    => /\ width' = last'.msg[3]
                       /\ height' = last'.msg[4]
                       /\ format' = last'.msg[2] ]_vars

\* a DisplaySwitch was processed with the framebuffer already mapped: it
\* made no system call and the listener holds its dimensions
C5_Witness ==
    /\ IsDisplaySwitch(last.msg)
    /\ last.sys = NoCall
    /\ shm_buffer # NULL
    /\ shmOpens = 1
    /\ mmapsOk = 1
    /\ <<width, height, format>> = <<last.msg[3], last.msg[4], last.msg[2]>>

(* C6.  A DisplaySwitch whose shm_open or mmap fails leaves shm_buffer,    *)
(* width, height and format as they were, and every DisplaySwitch          *)
(* processed while nothing is mapped calls shm_open and mmap (again).      *)
C6_FailedMapLeavesState ==
    [][ /\ (nIn' = nIn + 1 /\ last'.sys # NoCall
               /\ (last'.sys[1] < 0 \/ last'.sys[2] = MAP_FAILED))
            => UNCHANGED <<shm_buffer, width, height, format>>
        /\ (nIn' = nIn + 1 /\ IsDisplaySwitch(last'.msg) /\ shm_buffer = NULL)
            => /\ last'.sys # NoCall
               /\ shmOpens' = shmOpens + 1 ]_vars

\* the first DisplaySwitch failed to map, the next one tried again and
\* mapped the framebuffer
C6_Witness ==
    /\ shmOpens = 2
    /\ mmapsOk = 1
    /\ IsDisplaySwitch(last.msg)
    /\ last.sys # NoCall
    /\ last.sys[2] = shm_buffer
    /\ shm_buffer # NULL

(* C7.  A DisplaySwitch(format, w, h) that is processed successfully hands *)
(* exactly one fullUpdate(peer, w, h, format) to every registered peer.    *)
C7_FullUpdateToEveryPeer ==
    [][ (nIn' = nIn + 1 /\ IsDisplaySwitch(last'.msg) /\ shm_buffer' # NULL)
            => \A p \in Range(registered) :
                  Count(Appended(peerLog, peerLog'),
                        FullUpdate(p, last'.msg[3], last'.msg[4], last'.msg[2])) = 1 ]_vars

(* C8.  A DisplayUpdate(x, y, w, h) hands exactly one partialUpdate(peer,  *)
(* x, y, w, h) to every registered peer and one ack to the worker.         *)
C8_PartialUpdateToEveryPeer ==
    [][ (nIn' = nIn + 1 /\ IsDisplayUpdate(last'.msg))
            => /\ \A p \in Range(registered) :
                     Count(Appended(peerLog, peerLog'),
                           PartialUpdate(p, last'.msg[2], last'.msg[3],
                                         last'.msg[4], last'.msg[5])) = 1
               /\ Len(outbox') = Len(outbox) + 1 ]_vars

(* C9.  After any sequence of registerPeer and unregisterPeer calls the    *)
(* peer list holds exactly the peers registered and not yet unregistered,  *)
(* and NumConnectedPeers is their number.                                  *)
C9_PeerSetTracksRegistrations ==
    /\ Range(peerlist) = Range(registered)
    /\ on_property_call("NumConnectedPeers") = Len(registered)

(* C10.  A RunServer execution that has returned has called                *)
(* parent->UnregisterVM exactly once, with the listener's uuid and port,   *)
(* whichever way it reached its end: shadow_server_init failed, the        *)
(* introspection data could not be created, shadow_server_start failed, or *)
(* the shadow server's thread ended; before it returns it has not called   *)
(* it.                                                                     *)
C10_UnregisterOnEveryExit ==
    /\ pc = "returned"
        => /\ unregisterVM = << [uuid |-> uuid, port |-> port] >>
           /\ exitPath \in {"init_failed", "introspection_failed",
                            "start_failed", "main_loop_exited"}
    /\ pc # "returned" => unregisterVM = << >>

\* RunServer returned after shadow_server_start failed
C10_Witness ==
    /\ pc = "returned"
    /\ exitPath = "start_failed"
    /\ Len(unregisterVM) = 1

(* C11.  A listener whose RunServer thread waits on the running shadow     *)
(* server and that has processed a Shutdown message (stop is set)          *)
(* eventually leaves that state: RunServer returns, having called          *)
(* parent->UnregisterVM.                                                   *)
C11_ShutdownEndsRun ==
    (alive /\ pc = "waiting" /\ server = "running" /\ stop)
        ~> (pc = "returned" /\ unregisterVM # << >>)

(* C12.  processIncomingMessage is never called on a listener whose        *)
(* destructor has run, however the worker's main loop and the RunServer    *)
(* thread (whose UnregisterVM call destroys the listener) interleave.      *)
C12_NoDispatchAfterDestruction == ~useAfterFree

(* C13.  The items of one listener reach the shim in the order in which    *)
(* the listener handed them to the worker, whether they went through       *)
(* sendMessage (the acks) or through queueOutgoingMessage (the events of   *)
(* the peers).                                                             *)
C13_DeliveredInEmissionOrder ==
    \A i, j \in 1..Len(wire) : i < j => wire[i].seq < wire[j].seq

(* C14.  Encoding an event with mux_write_outgoing_msg and handing the     *)
(* bytes produced to mux_process_incoming_msg gives the event back: the    *)
(* decoder delivers the tag and the field values that were encoded.        *)
C14_RoundTrip ==
    (enc.called /\ rx.called /\ rx.frame = nnstr.data)
        => Delivered(rx.fired) = EventOf(enc.update)

(* C15.  mux_write_outgoing_msg writes exactly one array, and nothing      *)
(* after it: its declared length is the number of elements that follow,    *)
(* 1 + the number of fields of the event, and the elements are the tag and *)
(* the fields in the order of the protocol table: [0, x1, y1, x2-x1,       *)
(* y2-y1] for a display update, [1, format, w, h] for a display switch,    *)
(* [5] for the NULL update.                                                *)
C15_EncodesOneArray ==
    (enc.called /\ IsShimEvent(enc.update))
        => LET a == Unpack(nnstr.data)
           IN  /\ a.ok
               /\ a.len = Len(WireArray(enc.update))
               /\ a.elems = WireArray(enc.update)
               /\ a.pos = Len(nnstr.data)
               /\ nnstr.pos = Len(nnstr.data)
               /\ ~nnstr.overrun

\* DisplayUpdate(10, 20, 110, 220) was encoded, the buffer grew from one
\* byte on, and its bytes read back as [0, 10, 20, 100, 200]
C15_Witness ==
    /\ enc.called
    /\ enc.update = Update(DISPLAY_UPDATE, <<10, 20, 110, 220>>)
    /\ enc.usable = 1
    /\ Unpack(nnstr.data).elems = <<0, 10, 20, 100, 200>>
    /\ nnstr.data = <<149, 0, 10, 20, 100, 204, 200>>

(* C16.  A malformed frame has no effect.  On the shim's side, a call of   *)
(* mux_process_incoming_msg on a frame that ends early, carries an         *)
(* undefined tag or holds something else than an unsigned integer fires no *)
(* callback and leaves display->framerate alone.  On the multiplexer's     *)
(* side, a processIncomingMessage call with a display update or switch of  *)
(* too few fields hands nothing to the worker and changes no field of the  *)
(* listener.                                                               *)
C16_MalformedIsDropped ==
    [][ /\ (rx'.called /\ rx'.frame \in MalformedFrames)
            => (rx'.fired = NoCallback /\ framerate' = framerate)
        /\ (nIn' = nIn + 1 /\ TooFewFields(last'.msg))
            => UNCHANGED <<outbox, wire, outQueue, emitted, stop, shm_buffer,
                           width, height, format, targetFPS, peerlist,
                           shmOpens, mmapsOk, peerLog>> ]_vars

\* the shim was handed a keyboard frame whose flags are nil, and the
\* listener a display update of three fields after it had mapped the
\* framebuffer
C16_Witness ==
    /\ rx.called
    /\ rx.frame = <<146, KEYBOARD, 30, 192>>
    /\ rx.frame \in MalformedFrames
    /\ rx.fired = NoCallback
    /\ Len(last.msg) = 4
    /\ last.msg[1] = DISPLAY_UPDATE
    /\ last.threw
    /\ shm_buffer # NULL

(* C17.  GetRDPFormat returns, for the pixel format of the display, the    *)
(* source format, the destination format and the bytes per pixel of the    *)
(* table: r8g8b8a8 and r8g8b8x8 give (XBGR32, XBGR32, 4), a8r8g8b8 and     *)
(* x8r8g8b8 give (XRGB32, XRGB32, 4), r8g8b8 gives (BGR24, XRGB32, 3),     *)
(* b8g8r8 gives (RGB24, XRGB32, 3), r5g6b5 gives (BGR16, XRGB32, 2),       *)
(* x1r5g5b5 gives (ABGR15, XRGB32, 2), and every other code (-1, -1, -1).  *)
C17_FormatTable ==
    rdpFormat.called =>
        LET f == rdpFormat.format
            Is(codes, src, dst, bpp) ==
                f \in codes => rdpFormat.result = <<src, dst, bpp>>
        IN  /\ Is({PIXMAN_r8g8b8a8, PIXMAN_r8g8b8x8},
                  PIXEL_FORMAT_XBGR32, PIXEL_FORMAT_XBGR32, 4)
            /\ Is({PIXMAN_a8r8g8b8, PIXMAN_x8r8g8b8},
                  PIXEL_FORMAT_XRGB32, PIXEL_FORMAT_XRGB32, 4)
            /\ Is({PIXMAN_r8g8b8}, PIXEL_FORMAT_BGR24, PIXEL_FORMAT_XRGB32, 3)
            /\ Is({PIXMAN_b8g8r8}, PIXEL_FORMAT_RGB24, PIXEL_FORMAT_XRGB32, 3)
            /\ Is({PIXMAN_r5g6b5}, PIXEL_FORMAT_BGR16, PIXEL_FORMAT_XRGB32, 2)
            /\ Is({PIXMAN_x1r5g5b5}, PIXEL_FORMAT_ABGR15, PIXEL_FORMAT_XRGB32, 2)
            /\ f \notin (SwitchFormats \ {PIXMAN_a8b8g8r8, 12})
                  => rdpFormat.result = <<-1, -1, -1>>

\* GetRDPFormat was called after a display switch to r8g8b8 and returned
\* three bytes per pixel; the display has since switched to a format the
\* table does not hold
C17_Witness ==
    /\ rdpFormat.called
    /\ rdpFormat.format = PIXMAN_r8g8b8
    /\ rdpFormat.result = <<PIXEL_FORMAT_BGR24, PIXEL_FORMAT_XRGB32, 3>>
    /\ format = PIXMAN_a8b8g8r8

(* C18.  The mapping of the framebuffer is released exactly once, by the   *)
(* destruction of the listener: munmap is never called more often than     *)
(* mmap succeeded, and once ~RDPListener has run every mapping made has    *)
(* been unmapped.                                                          *)
C18_MappingReleasedOnce ==
    /\ munmaps <= mmapsOk
    /\ ~alive => munmaps = mmapsOk

(* C19.  SetCredentialFile and SetAuthentication are thread-safe: the      *)
(* DBus thread is never inside the assignment to credential_path or to     *)
(* authenticating while a peer thread is inside the getter of the same     *)
(* field.                                                                  *)
C19_NoConcurrentWriteAndRead ==
    /\ ~(Writing("credential_path") /\ Reading("credential_path"))
    /\ ~(Writing("authenticating") /\ Reading("authenticating"))

C22_CompleteSetsFramerate ==
    [][(rx'.called /\ nnstr' = nnstr /\ enc' = enc)
         => LET frame == rx'.frame
                a == cmp_read_array(frame, Len(frame), 0)
                t == cmp_read_uint(frame, Len(frame), a.pos)
            IN  (a.ok /\ t.ok /\ t.val = DISPLAY_UPDATE_COMPLETE)
                  => framerate' = mux_process_incoming_complete_msg(
                                      frame, Len(frame), t.pos, framerate)]_vars

(* C20.  mux_write_outgoing_msg returns the number of bytes it wrote into  *)
(* the buffer, which is the final position of the cursor: for the NULL     *)
(* update, for a display update or switch, and for an update of unknown    *)
(* type, which writes nothing.                                             *)
C20_ReturnsBytesWritten ==
    enc.called => (enc.ret = nnstr.pos /\ enc.ret = Len(nnstr.data))

(* C23.  unregisterPeer(p) is safe for any peer p: a call for a peer that  *)
(* is not in peerlist (the empty list included) never erases at the        *)
(* list's past-the-end position, so that no call kills the process or      *)
(* damages the container, and peerlist keeps holding registered peers      *)
(* only, each once.                                                        *)
C23_UnregisterPeerIsSafe ==
    /\ ~crashed
    /\ ~sizeUnderflow
    /\ Range(peerlist) \subseteq Range(registered)
    /\ Cardinality(Range(peerlist)) = Len(peerlist)

=============================================================================

